---- MODULE Spec2Model ----
(***************************************************************************)
(* Clinic management API (FastAPI + SQLAlchemy): the two tables, the data  *)
(* access layer (app/crud.py) and the request handlers (app/routers).      *)
(* Every request handler is one action; it runs in its own session and     *)
(* commits or rolls back before it answers.                                *)
(***************************************************************************)
EXTENDS Integers, Sequences, FiniteSets, TLC

VARIABLES
    dialect,        \* storage engine behind SQLALCHEMY_DATABASE_URL
    patients,       \* table patients: rows in the engine's scan order
    appointments,   \* table appointments: rows in the engine's scan order
    patients_id_seq,      \* server-side id sequence of patients (postgresql)
    appointments_id_seq,  \* server-side id sequence of appointments (postgresql)
    now,            \* the store's clock, func.now()
    nreq,           \* number of requests served so far
    last,           \* the last request served and its response
    sessions        \* per worker thread: the request in hand and its session

vars == <<dialect, patients, appointments, patients_id_seq,
          appointments_id_seq, now, nreq, last, sessions>>

-----------------------------------------------------------------------------
(* Bounds of the model *)

MaxRequests == 3
MaxTime == 2
MaxInFlight == 2

-----------------------------------------------------------------------------
(* Program constants *)

HTTP_200_OK == 200
HTTP_201_CREATED == 201
HTTP_204_NO_CONTENT == 204
HTTP_404_NOT_FOUND == 404
HTTP_422_UNPROCESSABLE_ENTITY == 422
HTTP_500_INTERNAL_SERVER_ERROR == 500
DefaultSkip == 0
DefaultLimit == 100
NameMaxLength == 50

\* Optional[...] values: None, or a value
NULL == <<>>
Some(v) == <<v>>
Val(o) == o[1]

Min(a, b) == IF a <= b THEN a ELSE b

Dialects == {"sqlite", "postgresql"}

-----------------------------------------------------------------------------
(* app/models.py: columns and their constraints *)

PatientFields ==
    {"first_name", "last_name", "date_of_birth", "gender", "phone_number",
     "email", "address"}

PatientNotNull == {"first_name", "last_name", "date_of_birth"}

\* String(n) columns of patients
PatientLengths ==
    [first_name |-> 50, last_name |-> 50, gender |-> 10, phone_number |-> 20,
     email |-> 100]

AppointmentFields == {"patient_id", "appointment_date", "description", "status"}

AppointmentUpdateFields == {"appointment_date", "description", "status"}

AppointmentNotNull == {"patient_id", "appointment_date"}

\* String(n) columns of appointments
AppointmentLengths == [status |-> 20]

\* A String(n) column holds the value: NULL or at most n characters
Fits(o, n) == o = NULL \/ Len(Val(o)) <= n

\* The constraints the engine checks when a row is written.  NOT NULL is
\* enforced by every engine; sqlite does not enforce VARCHAR lengths.
ConstraintsHold(d, row, notnull, lengths) ==
    /\ \A f \in notnull : row[f] # NULL
    /\ d = "postgresql" => \A f \in DOMAIN lengths : Fits(row[f], lengths[f])

-----------------------------------------------------------------------------
(* Table helpers *)

Ids(tbl) == {tbl[i].id : i \in 1..Len(tbl)}

MaxId(tbl) == IF tbl = <<>> THEN 0
              ELSE CHOOSE m \in Ids(tbl) : \A k \in Ids(tbl) : k <= m

\* Query.filter(id == x).first(): the row, or None
First(tbl, id) ==
    IF id \in Ids(tbl)
    THEN Some(tbl[CHOOSE i \in 1..Len(tbl) : tbl[i].id = id])
    ELSE NULL

\* Primary key of a new row: sqlite's rowid is the largest rowid plus one,
\* postgresql draws the next value of the table's sequence.
NewId(d, tbl, seq) == IF d = "sqlite" THEN MaxId(tbl) + 1 ELSE seq + 1

\* sqlite keeps no sequence for an INTEGER PRIMARY KEY column
NextSeq(d, seq) == IF d = "sqlite" THEN seq ELSE seq + 1

Without(tbl, id) == SelectSeq(tbl, LAMBDA r : r.id # id)

\* UPDATE of one row.  sqlite rewrites the row in place (scan by rowid);
\* postgresql writes a new row version behind the existing rows of the heap.
Rewrite(d, tbl, row) ==
    IF d = "sqlite"
    THEN [i \in 1..Len(tbl) |-> IF tbl[i].id = row.id THEN row ELSE tbl[i]]
    ELSE Append(Without(tbl, row.id), row)

\* Query.offset(skip).limit(limit).all(): no ORDER BY, so the engine's scan
\* order.  sqlite reads a negative OFFSET as 0 and a negative LIMIT as no
\* limit; postgresql rejects either.
OffsetLimitRaises(d, skip, limit) == d = "postgresql" /\ (skip < 0 \/ limit < 0)

OffsetLimit(tbl, skip, limit) ==
    LET off == IF skip < 0 THEN 0 ELSE skip
        lim == IF limit < 0 THEN Len(tbl) ELSE limit
    IN  SubSeq(tbl, off + 1, Min(off + lim, Len(tbl)))

\* exclude_unset merge: setattr for every field of the update that is set
Merge(row, upd) ==
    [f \in DOMAIN row |->
        IF f \in upd.fields_set THEN upd.values[f] ELSE row[f]]

\* Stamp as it would be if the UPDATE set created_at as well
Stamp_created_at(row, merged, t) ==
    IF merged = row THEN row
    ELSE [merged EXCEPT !.updated_at = Some(t), !.created_at = Some(t)]

\* The flush emits an UPDATE only for a row with a net change of some column;
\* onupdate=func.now() is part of that UPDATE.
Stamp(row, merged, t) ==
    IF merged = row THEN row ELSE [merged EXCEPT !.updated_at = Some(t)]

-----------------------------------------------------------------------------
(* app/crud.py.  Each operation is given the tables and answers with the   *)
(* exception raised (or "" for none), the value returned and the tables as *)
(* committed; a raise leaves the tables as they were (the session is       *)
(* closed without a commit).                                               *)

PatientRow(id, p, t) ==
    [id |-> id, first_name |-> p.first_name, last_name |-> p.last_name,
     date_of_birth |-> p.date_of_birth, gender |-> p.gender,
     phone_number |-> p.phone_number, email |-> p.email,
     address |-> p.address, created_at |-> Some(t), updated_at |-> NULL]

\* Column(String(20), default="scheduled"): an INSERT of None takes the default
AppointmentRow(id, a, t) ==
    [id |-> id, patient_id |-> a.patient_id,
     appointment_date |-> a.appointment_date, description |-> a.description,
     status |-> IF a.status = NULL THEN Some("scheduled") ELSE a.status,
     created_at |-> Some(t), updated_at |-> NULL]

ErrorName(row, notnull) ==
    IF \E f \in notnull : row[f] = NULL THEN "IntegrityError" ELSE "DataError"

\* get_patient as it would be with the filter on the id left out
get_patient_unfiltered(ptbl, patient_id) ==
    IF ptbl = <<>> THEN NULL ELSE Some(ptbl[1])

get_patient(ptbl, patient_id) == First(ptbl, patient_id)

get_patients(d, ptbl, skip, limit) ==
    IF OffsetLimitRaises(d, skip, limit)
    THEN [raised |-> "DataError", result |-> <<>>]
    ELSE [raised |-> "", result |-> OffsetLimit(ptbl, skip, limit)]

crud_create_patient(d, ptbl, seq, patient, t) ==
    LET db_patient == PatientRow(NewId(d, ptbl, seq), patient, t)
    IN  IF ConstraintsHold(d, db_patient, PatientNotNull, PatientLengths)
        THEN [raised |-> "", result |-> Some(db_patient),
              patients |-> Append(ptbl, db_patient),
              seq |-> NextSeq(d, seq)]
        ELSE [raised |-> ErrorName(db_patient, PatientNotNull),
              result |-> NULL, patients |-> ptbl, seq |-> seq]

crud_update_patient(d, ptbl, patient_id, patient, t) ==
    LET db_patient == get_patient(ptbl, patient_id)
        row == Val(db_patient)
        merged == Stamp(row, Merge(row, patient), t)
    IN  IF db_patient = NULL
        THEN [raised |-> "", result |-> NULL, patients |-> ptbl]
        ELSE IF merged = row
        THEN [raised |-> "", result |-> db_patient, patients |-> ptbl]
        ELSE IF ConstraintsHold(d, merged, PatientNotNull, PatientLengths)
        THEN [raised |-> "", result |-> Some(merged),
              patients |-> Rewrite(d, ptbl, merged)]
        ELSE [raised |-> ErrorName(merged, PatientNotNull),
              result |-> NULL, patients |-> ptbl]

\* relationship("Appointment", back_populates="patient") has no delete
\* cascade and no passive_deletes: the flush of db.delete(db_patient) first
\* sets patient_id of every appointment of the patient to NULL, and only
\* then deletes the patient row.
crud_delete_patient(d, ptbl, atbl, patient_id, t) ==
    LET db_patient == get_patient(ptbl, patient_id)
        owned == {i \in 1..Len(atbl) : atbl[i].patient_id = Some(patient_id)}
        released == [i \in 1..Len(atbl) |->
                        IF i \in owned
                        THEN [atbl[i] EXCEPT !.patient_id = NULL,
                                             !.updated_at = Some(t)]
                        ELSE atbl[i]]
    IN  IF db_patient = NULL
        THEN [raised |-> "", result |-> FALSE,
              patients |-> ptbl, appointments |-> atbl]
        ELSE IF \A i \in owned :
                    ConstraintsHold(d, released[i], AppointmentNotNull,
                                    AppointmentLengths)
        THEN [raised |-> "", result |-> TRUE,
              patients |-> Without(ptbl, patient_id),
              appointments |-> released]
        ELSE [raised |-> "IntegrityError", result |-> FALSE,
              patients |-> ptbl, appointments |-> atbl]

\* get_appointment as it would be with the filter on the id left out
get_appointment_unfiltered(atbl, appointment_id) ==
    IF atbl = <<>> THEN NULL ELSE Some(atbl[1])

get_appointment(atbl, appointment_id) == First(atbl, appointment_id)

get_appointments(d, atbl, skip, limit) ==
    IF OffsetLimitRaises(d, skip, limit)
    THEN [raised |-> "DataError", result |-> <<>>]
    ELSE [raised |-> "", result |-> OffsetLimit(atbl, skip, limit)]

crud_create_appointment(d, atbl, seq, appointment, t) ==
    LET db_appointment == AppointmentRow(NewId(d, atbl, seq), appointment, t)
    IN  IF ConstraintsHold(d, db_appointment, AppointmentNotNull,
                           AppointmentLengths)
        THEN [raised |-> "", result |-> Some(db_appointment),
              appointments |-> Append(atbl, db_appointment),
              seq |-> NextSeq(d, seq)]
        ELSE [raised |-> ErrorName(db_appointment, AppointmentNotNull),
              result |-> NULL, appointments |-> atbl, seq |-> seq]

crud_update_appointment(d, atbl, appointment_id, appointment, t) ==
    LET db_appointment == get_appointment(atbl, appointment_id)
        row == Val(db_appointment)
        merged == Stamp(row, Merge(row, appointment), t)
    IN  IF db_appointment = NULL
        THEN [raised |-> "", result |-> NULL, appointments |-> atbl]
        ELSE IF merged = row
        THEN [raised |-> "", result |-> db_appointment, appointments |-> atbl]
        ELSE IF ConstraintsHold(d, merged, AppointmentNotNull,
                                AppointmentLengths)
        THEN [raised |-> "", result |-> Some(merged),
              appointments |-> Rewrite(d, atbl, merged)]
        ELSE [raised |-> ErrorName(merged, AppointmentNotNull),
              result |-> NULL, appointments |-> atbl]

\* Soft delete: db_appointment.status = "cancelled", then commit
Cancelled ==
    [fields_set |-> {"status"},
     values |-> [appointment_date |-> NULL, description |-> NULL,
                 status |-> Some("cancelled")]]

crud_delete_appointment(d, atbl, appointment_id, t) ==
    crud_update_appointment(d, atbl, appointment_id, Cancelled, t)

-----------------------------------------------------------------------------
(* Request payloads, as parsed by app/schemas.py *)

TEST_PATIENT ==
    [first_name |-> Some("John"), last_name |-> Some("Doe"),
     date_of_birth |-> Some("1990-01-01"), gender |-> Some("Male"),
     phone_number |-> Some("+1234567890"),
     email |-> Some("john.doe@example.com"), address |-> Some("123 Main St")]

\* Only the required fields, and a gender longer than the column String(10)
LONG_GENDER_PATIENT ==
    [first_name |-> Some("Jane"), last_name |-> Some("Roe"),
     date_of_birth |-> Some("1985-05-05"), gender |-> Some("Prefer not to say"),
     phone_number |-> NULL, email |-> NULL, address |-> NULL]

\* first_name missing
INVALID_PATIENT == [TEST_PATIENT EXCEPT !.first_name = NULL]

PatientCreateInputs == {TEST_PATIENT, LONG_GENDER_PATIENT, INVALID_PATIENT}

PatientUpdate(fields) ==
    [fields_set |-> DOMAIN fields,
     values |-> [f \in PatientFields |->
                    IF f \in DOMAIN fields THEN fields[f] ELSE NULL]]

\* first_name of 51 characters, one more than max_length
LONG_NAME_UPDATE ==
    PatientUpdate([first_name |->
        Some("Wolfeschlegelsteinhausenbergerdorffwelchevoralternw")])

PatientUpdateInputs ==
    { PatientUpdate(<<>>),
      PatientUpdate([first_name |-> Some("Johnny"),
                     email |-> Some("johnny.doe@example.com")]),
      PatientUpdate([first_name |-> NULL]),
      PatientUpdate([gender |-> NULL]),
      LONG_NAME_UPDATE }

TEST_APPOINTMENT(patient_id) ==
    [patient_id |-> Some(patient_id),
     appointment_date |-> Some("2099-01-01T10:00:00Z"),
     description |-> Some("Initial consultation"),
     status |-> Some("scheduled")]

AppointmentCreateInputs(patient_id) ==
    { TEST_APPOINTMENT(patient_id),
      [TEST_APPOINTMENT(patient_id) EXCEPT !.status = Some("cancelled")],
      [TEST_APPOINTMENT(patient_id) EXCEPT !.appointment_date = NULL] }

AppointmentUpdate(fields) ==
    [fields_set |-> DOMAIN fields,
     values |-> [f \in AppointmentUpdateFields |->
                    IF f \in DOMAIN fields THEN fields[f] ELSE NULL]]

AppointmentUpdateInputs ==
    { AppointmentUpdate(<<>>),
      AppointmentUpdate([status |-> Some("completed"),
                         description |-> Some("Appointment completed successfully")]),
      AppointmentUpdate([appointment_date |-> NULL]) }

\* skip, limit of a list request: the defaults, a page, and negative values
ListInputs ==
    { <<DefaultSkip, DefaultLimit>>, <<DefaultSkip, 1>>, <<1, 1>>,
      <<-1, DefaultLimit>>, <<DefaultSkip, -1>> }

\* Ids a request may name: those in use, and one that is not
IdInputs(tbl) == 1..(MaxId(tbl) + 1)

\* PatientBase: first_name, last_name str with max_length, date_of_birth date
ValidPatientCreate(p) ==
    /\ p.first_name # NULL /\ Len(Val(p.first_name)) <= NameMaxLength
    /\ p.last_name # NULL /\ Len(Val(p.last_name)) <= NameMaxLength
    /\ p.date_of_birth # NULL

\* PatientUpdate: first_name, last_name Optional[str] with max_length
ValidPatientUpdate(p) ==
    \A f \in {"first_name", "last_name"} :
        (f \in p.fields_set /\ p.values[f] # NULL)
        => Len(Val(p.values[f])) <= NameMaxLength

\* AppointmentBase: patient_id int, appointment_date datetime
ValidAppointmentCreate(a) == a.patient_id # NULL /\ a.appointment_date # NULL

-----------------------------------------------------------------------------
(* app/main.py: how a request ends *)

Reply(op, args, status, detail, detail_args, body) ==
    [op |-> op, args |-> args, status |-> status, detail |-> detail,
     detail_args |-> detail_args, body |-> body]

\* raise HTTPException(status_code=..., detail=...)
HTTPException(op, args, status, detail, detail_args) ==
    Reply(op, args, status, detail, detail_args, NULL)

\* FastAPI(..., debug=True)
debug == TRUE

\* Handler registered for Exception
global_exception_handler(op, args, exc) ==
    Reply(op, args, HTTP_500_INTERNAL_SERVER_ERROR, "Internal Server Error",
          <<exc>>, NULL)

\* An exception no handler takes reaches the server error middleware; with
\* debug set it answers 500 with the traceback and not with the handler
\* registered for Exception.
Unhandled(op, args, exc) ==
    IF debug
    THEN Reply(op, args, HTTP_500_INTERNAL_SERVER_ERROR,
               "Traceback (most recent call last):", <<exc>>, NULL)
    ELSE global_exception_handler(op, args, exc)

\* The handler of RequestValidationError calls jsonable_encoder, a name
\* main.py never imports: the handler itself raises NameError.
validation_exception_handler(op, args) == Unhandled(op, args, "NameError")

\* schemas.Appointment, from_attributes: the row and its patient
AppointmentOut(row, ptbl) ==
    [f \in DOMAIN row \cup {"patient"} |->
        IF f = "patient"
        THEN (IF row.patient_id = NULL THEN NULL
              ELSE get_patient(ptbl, Val(row.patient_id)))
        ELSE row[f]]

-----------------------------------------------------------------------------
(* State after startup *)

\* on_startup: create_all, then the test patient if the table is empty.
\* The seed's date_of_birth is a str, which sqlite's Date type refuses.
SEED_PATIENT ==
    [first_name |-> Some("Test"), last_name |-> Some("Patient"),
     date_of_birth |-> Some("1990-01-01"), gender |-> Some("Other"),
     phone_number |-> Some("+254712345678"),
     email |-> Some("test@example.com"),
     address |-> Some("123 Test St, Nairobi, Kenya")]

Started ==
    [op |-> "on_startup", args |-> <<>>, status |-> 0, detail |-> "",
     detail_args |-> <<>>, body |-> NULL]

\* The application on a server engine, its database empty before startup
InitServer ==
    /\ dialect = "postgresql"
    /\ LET r == crud_create_patient(dialect, <<>>, 0, SEED_PATIENT, 1)
       IN  patients = r.patients /\ patients_id_seq = r.seq
    /\ appointments = <<>>
    /\ appointments_id_seq = 0

\* The test fixtures: a sqlite file, create_all on dropped tables, and
\* get_db overridden so that the application uses it
InitFixture ==
    /\ dialect = "sqlite"
    /\ patients = <<>> /\ patients_id_seq = 0
    /\ appointments = <<>> /\ appointments_id_seq = 0

\* The threads that run the route functions, and a thread with no request
Workers == 1..MaxInFlight

Idle ==
    [pc |-> "idle", db |-> "none", opened |-> 0, op |-> "", args |-> <<>>,
     loaded |-> NULL, reply |-> Started]

Init ==
    /\ InitServer \/ InitFixture
    /\ now = 1
    /\ nreq = 0
    /\ last = Started
    /\ sessions = [w \in Workers |-> Idle]

\* A request served from its arrival to its answer with no other request in
\* between: its session is opened and closed within the step
Serve(reply) == nreq' = nreq + 1 /\ last' = reply /\ sessions' = sessions

Tick ==
    /\ now < MaxTime
    /\ now' = now + 1
    /\ UNCHANGED <<dialect, patients, appointments, patients_id_seq,
                   appointments_id_seq, nreq, last, sessions>>

-----------------------------------------------------------------------------
(* app/routers/patients.py *)

\* POST /api/patients/
patients_create_patient ==
    /\ nreq < MaxRequests
    /\ \E patient \in PatientCreateInputs :
        LET args == [patient |-> patient]
            r == crud_create_patient(dialect, patients, patients_id_seq,
                                     patient, now)
        IN  IF ~ValidPatientCreate(patient)
            THEN /\ Serve(validation_exception_handler("create_patient", args))
                 /\ UNCHANGED <<patients, patients_id_seq>>
            ELSE /\ patients' = r.patients
                 /\ patients_id_seq' = r.seq
                 /\ Serve(IF r.raised # ""
                          THEN Unhandled("create_patient", args, r.raised)
                          ELSE Reply("create_patient", args, HTTP_201_CREATED,
                                     "", <<>>, r.result))
    /\ UNCHANGED <<dialect, appointments, appointments_id_seq, now>>

\* GET /api/patients/?skip=&limit=
patients_read_patients ==
    /\ nreq < MaxRequests
    /\ \E page \in ListInputs :
        LET args == [skip |-> page[1], limit |-> page[2]]
            r == get_patients(dialect, patients, page[1], page[2])
        IN  Serve(IF r.raised # ""
                  THEN HTTPException("read_patients", args,
                            HTTP_500_INTERNAL_SERVER_ERROR,
                            "An error occurred while fetching patients: {}",
                            <<r.raised>>)
                  ELSE Reply("read_patients", args, HTTP_200_OK, "", <<>>,
                             r.result))
    /\ UNCHANGED <<dialect, patients, appointments, patients_id_seq,
                   appointments_id_seq, now>>

\* GET /api/patients/{patient_id}
patients_read_patient ==
    /\ nreq < MaxRequests
    /\ \E patient_id \in IdInputs(patients) :
        LET args == [patient_id |-> patient_id]
            db_patient == get_patient(patients, patient_id)
        IN  Serve(IF db_patient = NULL
                  THEN HTTPException("read_patient", args, HTTP_404_NOT_FOUND,
                                     "Patient not found", <<>>)
                  ELSE Reply("read_patient", args, HTTP_200_OK, "", <<>>,
                             db_patient))
    /\ UNCHANGED <<dialect, patients, appointments, patients_id_seq,
                   appointments_id_seq, now>>

\* PUT /api/patients/{patient_id}
patients_update_patient ==
    /\ nreq < MaxRequests
    /\ \E patient_id \in IdInputs(patients), patient \in PatientUpdateInputs :
        LET args == [patient_id |-> patient_id, patient |-> patient]
            r == crud_update_patient(dialect, patients, patient_id, patient, now)
        IN  IF ~ValidPatientUpdate(patient)
            THEN /\ Serve(validation_exception_handler("update_patient", args))
                 /\ UNCHANGED patients
            ELSE /\ patients' = r.patients
                 /\ Serve(IF r.raised # ""
                          THEN Unhandled("update_patient", args, r.raised)
                          ELSE IF r.result = NULL
                          THEN HTTPException("update_patient", args,
                                             HTTP_404_NOT_FOUND,
                                             "Patient not found", <<>>)
                          ELSE Reply("update_patient", args, HTTP_200_OK, "",
                                     <<>>, r.result))
    /\ UNCHANGED <<dialect, appointments, patients_id_seq,
                   appointments_id_seq, now>>

\* DELETE /api/patients/{patient_id}
patients_delete_patient ==
    /\ nreq < MaxRequests
    /\ \E patient_id \in IdInputs(patients) :
        LET args == [patient_id |-> patient_id]
            r == crud_delete_patient(dialect, patients, appointments,
                                     patient_id, now)
        IN  /\ patients' = r.patients
            /\ appointments' = r.appointments
            /\ Serve(IF r.raised # ""
                     THEN Unhandled("delete_patient", args, r.raised)
                     ELSE IF ~r.result
                     THEN HTTPException("delete_patient", args,
                                        HTTP_404_NOT_FOUND,
                                        "Patient not found", <<>>)
                     ELSE Reply("delete_patient", args, HTTP_204_NO_CONTENT,
                                "", <<>>, NULL))
    /\ UNCHANGED <<dialect, patients_id_seq, appointments_id_seq, now>>

-----------------------------------------------------------------------------
(* app/routers/appointments.py *)

\* POST /api/appointments/
appointments_create_appointment ==
    /\ nreq < MaxRequests
    /\ \E patient_id \in IdInputs(patients) :
       \E appointment \in AppointmentCreateInputs(patient_id) :
        LET args == [appointment |-> appointment]
            db_patient == get_patient(patients, Val(appointment.patient_id))
            r == crud_create_appointment(dialect, appointments,
                                         appointments_id_seq, appointment, now)
        IN  IF ~ValidAppointmentCreate(appointment)
            THEN /\ Serve(validation_exception_handler("create_appointment",
                                                       args))
                 /\ UNCHANGED <<appointments, appointments_id_seq>>
            ELSE IF db_patient = NULL
            THEN /\ Serve(HTTPException("create_appointment", args,
                                        HTTP_404_NOT_FOUND,
                                        "Patient with id {} not found",
                                        <<Val(appointment.patient_id)>>))
                 /\ UNCHANGED <<appointments, appointments_id_seq>>
            ELSE /\ appointments' = r.appointments
                 /\ appointments_id_seq' = r.seq
                 /\ Serve(IF r.raised # ""
                          THEN Unhandled("create_appointment", args, r.raised)
                          ELSE Reply("create_appointment", args,
                                     HTTP_201_CREATED, "", <<>>,
                                     Some(AppointmentOut(Val(r.result),
                                                         patients))))
    /\ UNCHANGED <<dialect, patients, patients_id_seq, now>>

\* GET /api/appointments/?skip=&limit=
appointments_read_appointments ==
    /\ nreq < MaxRequests
    /\ \E page \in ListInputs :
        LET args == [skip |-> page[1], limit |-> page[2]]
            r == get_appointments(dialect, appointments, page[1], page[2])
        IN  Serve(IF r.raised # ""
                  THEN Unhandled("read_appointments", args, r.raised)
                  ELSE Reply("read_appointments", args, HTTP_200_OK, "", <<>>,
                             [i \in 1..Len(r.result) |->
                                 AppointmentOut(r.result[i], patients)]))
    /\ UNCHANGED <<dialect, patients, appointments, patients_id_seq,
                   appointments_id_seq, now>>

\* GET /api/appointments/{appointment_id}
appointments_read_appointment ==
    /\ nreq < MaxRequests
    /\ \E appointment_id \in IdInputs(appointments) :
        LET args == [appointment_id |-> appointment_id]
            db_appointment == get_appointment(appointments, appointment_id)
        IN  Serve(IF db_appointment = NULL
                  THEN HTTPException("read_appointment", args,
                                     HTTP_404_NOT_FOUND,
                                     "Appointment not found", <<>>)
                  ELSE Reply("read_appointment", args, HTTP_200_OK, "", <<>>,
                             Some(AppointmentOut(Val(db_appointment),
                                                 patients))))
    /\ UNCHANGED <<dialect, patients, appointments, patients_id_seq,
                   appointments_id_seq, now>>

\* PUT /api/appointments/{appointment_id}
appointments_update_appointment ==
    /\ nreq < MaxRequests
    /\ \E appointment_id \in IdInputs(appointments),
          appointment \in AppointmentUpdateInputs :
        LET args == [appointment_id |-> appointment_id,
                     appointment |-> appointment]
            r == crud_update_appointment(dialect, appointments, appointment_id,
                                         appointment, now)
        IN  /\ appointments' = r.appointments
            /\ Serve(IF r.raised # ""
                     THEN Unhandled("update_appointment", args, r.raised)
                     ELSE IF r.result = NULL
                     THEN HTTPException("update_appointment", args,
                                        HTTP_404_NOT_FOUND,
                                        "Appointment not found", <<>>)
                     ELSE Reply("update_appointment", args, HTTP_200_OK, "",
                                <<>>,
                                Some(AppointmentOut(Val(r.result), patients))))
    /\ UNCHANGED <<dialect, patients, patients_id_seq, appointments_id_seq, now>>

\* DELETE /api/appointments/{appointment_id}
appointments_delete_appointment ==
    /\ nreq < MaxRequests
    /\ \E appointment_id \in IdInputs(appointments) :
        LET args == [appointment_id |-> appointment_id]
            r == crud_delete_appointment(dialect, appointments, appointment_id,
                                         now)
        IN  /\ appointments' = r.appointments
            /\ Serve(IF r.raised # ""
                     THEN Unhandled("delete_appointment", args, r.raised)
                     ELSE IF r.result = NULL
                     THEN HTTPException("delete_appointment", args,
                                        HTTP_404_NOT_FOUND,
                                        "Appointment not found", <<>>)
                     ELSE Reply("delete_appointment", args, HTTP_200_OK, "",
                                <<>>,
                                Some([status |-> "success",
                                      message |-> "Appointment cancelled successfully"])))
    /\ UNCHANGED <<dialect, patients, patients_id_seq, appointments_id_seq, now>>

-----------------------------------------------------------------------------

Next ==
    \/ Tick
    \/ patients_create_patient
    \/ patients_read_patients
    \/ patients_read_patient
    \/ patients_update_patient
    \/ patients_delete_patient
    \/ appointments_create_appointment
    \/ appointments_read_appointments
    \/ appointments_read_appointment
    \/ appointments_update_appointment
    \/ appointments_delete_appointment

Spec == Init /\ [][Next]_vars

-----------------------------------------------------------------------------
(* Requests in flight at the same time: the requests that write.  The      *)
(* route functions are plain def functions, which the framework runs on     *)
(* worker threads; each request has its own session (app/database.py        *)
(* get_db).  A request is served in three steps: it opens its session and   *)
(* runs its first SELECT; it flushes and commits (the refresh and the       *)
(* serialisation of the answer included); it closes its session.  The store *)
(* runs each statement of a request on the committed rows of that moment    *)
(* (READ COMMITTED; pysqlite opens its transaction at the first INSERT,     *)
(* UPDATE or DELETE).  The answer of a request in flight is in sessions;    *)
(* the clock stands still while the requests overlap.                       *)

\* Rows present before any of the requests in flight arrives: two patients
\* and an appointment of the first one, as POST requests of Spec leave them
InitConcurrent ==
    /\ dialect \in Dialects
    /\ LET first == crud_create_patient(dialect, <<>>, 0,
                        IF dialect = "sqlite" THEN TEST_PATIENT
                        ELSE SEED_PATIENT, 1)
           second == crud_create_patient(dialect, first.patients, first.seq,
                                         TEST_PATIENT, 1)
           booked == crud_create_appointment(dialect, <<>>, 0,
                                             TEST_APPOINTMENT(1), 1)
       IN  /\ patients = second.patients
           /\ patients_id_seq = second.seq
           /\ appointments = booked.appointments
           /\ appointments_id_seq = booked.seq
           /\ last = Reply("create_appointment",
                           [appointment |-> TEST_APPOINTMENT(1)],
                           HTTP_201_CREATED, "", <<>>,
                           Some(AppointmentOut(Val(booked.result),
                                               second.patients)))
    /\ now = MaxTime
    /\ nreq = IF dialect = "sqlite" THEN 3 ELSE 2
    /\ sessions = [w \in Workers |-> Idle]

\* Bodies of the requests in flight
ConcurrentPatientCreateInputs == {TEST_PATIENT, INVALID_PATIENT}

ConcurrentPatientUpdateInputs ==
    { PatientUpdate([first_name |-> Some("Johnny"),
                     email |-> Some("johnny.doe@example.com")]),
      PatientUpdate([first_name |-> Some("John"),
                     email |-> Some("j.doe@example.com")]) }

ConcurrentAppointmentUpdateInputs ==
    { AppointmentUpdate([status |-> Some("completed"),
                         description |-> Some("Appointment completed successfully")]) }

\* get_db up to the yield: SessionLocal(), then the route function runs
Enter(w, op, args, pc, loaded, reply) ==
    /\ sessions[w].pc = "idle"
    /\ sessions' = [sessions EXCEPT ![w] =
                       [pc |-> pc, db |-> "open", opened |-> @.opened + 1,
                        op |-> op, args |-> args, loaded |-> loaded,
                        reply |-> reply]]
    /\ UNCHANGED <<dialect, patients, appointments, patients_id_seq,
                   appointments_id_seq, now, nreq, last>>

\* The route function returns or raises: the answer is fixed
Answer(w, reply) ==
    sessions' = [sessions EXCEPT ![w].pc = "answered", ![w].reply = reply]

InHandler(w, op) == sessions[w].pc = "in_handler" /\ sessions[w].op = op

\* POST /api/patients/: the session is opened, the body validated
create_patient_begin(w) ==
    \E patient \in ConcurrentPatientCreateInputs :
        LET args == [patient |-> patient]
        IN  IF ~ValidPatientCreate(patient)
            THEN Enter(w, "create_patient", args, "answered", NULL,
                       validation_exception_handler("create_patient", args))
            ELSE Enter(w, "create_patient", args, "in_handler", NULL, Started)

\* PUT /api/patients/{patient_id}: up to get_patient
update_patient_begin(w) ==
    \E patient_id \in IdInputs(patients),
       patient \in ConcurrentPatientUpdateInputs :
        LET args == [patient_id |-> patient_id, patient |-> patient]
            db_patient == get_patient(patients, patient_id)
        IN  IF ~ValidPatientUpdate(patient)
            THEN Enter(w, "update_patient", args, "answered", NULL,
                       validation_exception_handler("update_patient", args))
            ELSE IF db_patient = NULL
            THEN Enter(w, "update_patient", args, "answered", NULL,
                       HTTPException("update_patient", args,
                                     HTTP_404_NOT_FOUND,
                                     "Patient not found", <<>>))
            ELSE Enter(w, "update_patient", args, "in_handler", db_patient,
                       Started)

\* DELETE /api/patients/{patient_id}: up to get_patient
delete_patient_begin(w) ==
    \E patient_id \in IdInputs(patients) :
        LET args == [patient_id |-> patient_id]
            db_patient == get_patient(patients, patient_id)
        IN  IF db_patient = NULL
            THEN Enter(w, "delete_patient", args, "answered", NULL,
                       HTTPException("delete_patient", args,
                                     HTTP_404_NOT_FOUND,
                                     "Patient not found", <<>>))
            ELSE Enter(w, "delete_patient", args, "in_handler", db_patient,
                       Started)

\* POST /api/appointments/: up to the lookup of the patient
create_appointment_begin(w) ==
    \E patient_id \in IdInputs(patients) :
        LET appointment == TEST_APPOINTMENT(patient_id)
            args == [appointment |-> appointment]
            db_patient == get_patient(patients, patient_id)
        IN  IF ~ValidAppointmentCreate(appointment)
            THEN Enter(w, "create_appointment", args, "answered", NULL,
                       validation_exception_handler("create_appointment",
                                                    args))
            ELSE IF db_patient = NULL
            THEN Enter(w, "create_appointment", args, "answered", NULL,
                       HTTPException("create_appointment", args,
                                     HTTP_404_NOT_FOUND,
                                     "Patient with id {} not found",
                                     <<patient_id>>))
            ELSE Enter(w, "create_appointment", args, "in_handler",
                       db_patient, Started)

\* PUT /api/appointments/{appointment_id}: up to get_appointment
update_appointment_begin(w) ==
    \E appointment_id \in IdInputs(appointments),
       appointment \in ConcurrentAppointmentUpdateInputs :
        LET args == [appointment_id |-> appointment_id,
                     appointment |-> appointment]
            db_appointment == get_appointment(appointments, appointment_id)
        IN  IF db_appointment = NULL
            THEN Enter(w, "update_appointment", args, "answered", NULL,
                       HTTPException("update_appointment", args,
                                     HTTP_404_NOT_FOUND,
                                     "Appointment not found", <<>>))
            ELSE Enter(w, "update_appointment", args, "in_handler",
                       db_appointment, Started)

\* DELETE /api/appointments/{appointment_id}: up to get_appointment
delete_appointment_begin(w) ==
    \E appointment_id \in IdInputs(appointments) :
        LET args == [appointment_id |-> appointment_id]
            db_appointment == get_appointment(appointments, appointment_id)
        IN  IF db_appointment = NULL
            THEN Enter(w, "delete_appointment", args, "answered", NULL,
                       HTTPException("delete_appointment", args,
                                     HTTP_404_NOT_FOUND,
                                     "Appointment not found", <<>>))
            ELSE Enter(w, "delete_appointment", args, "in_handler",
                       db_appointment, Started)

\* The columns of an UPDATE and their values, updated_at among them
SetColumns(row, changed, values, t) ==
    [f \in DOMAIN row |->
        IF f \in changed THEN values[f]
        ELSE IF f = "updated_at" THEN Some(t) ELSE row[f]]

\* UPDATE as it would be without its WHERE clause
UpdateWhere_every_row(d, tbl, id, changed, values, t) ==
    [i \in 1..Len(tbl) |-> SetColumns(tbl[i], changed, values, t)]

\* UPDATE ... SET ... WHERE id = :id, on the row as committed
UpdateWhere(d, tbl, id, changed, values, t) ==
    Rewrite(d, tbl, SetColumns(Val(First(tbl, id)), changed, values, t))

\* setattr of the fields of the update on the instance loaded, db.commit()
\* and db.refresh().  The UPDATE names the attributes whose value differs
\* from the one loaded; with none there is no UPDATE.  An UPDATE that matches
\* no row raises StaleDataError, a refresh that finds none InvalidRequestError.
session_update(d, tbl, loaded, upd, t, notnull, lengths) ==
    LET changed == {f \in upd.fields_set : upd.values[f] # loaded[f]}
        new == SetColumns(Val(First(tbl, loaded.id)), changed, upd.values, t)
    IN  IF loaded.id \notin Ids(tbl)
        THEN [raised |-> IF changed = {} THEN "InvalidRequestError"
                         ELSE "StaleDataError",
              result |-> NULL, rows |-> tbl]
        ELSE IF changed = {}
        THEN [raised |-> "", result |-> First(tbl, loaded.id), rows |-> tbl]
        ELSE IF ConstraintsHold(d, new, notnull, lengths)
        THEN [raised |-> "", result |-> Some(new),
              rows |-> UpdateWhere(d, tbl, loaded.id, changed, upd.values, t)]
        ELSE [raised |-> ErrorName(new, notnull), result |-> NULL,
              rows |-> tbl]

\* db.delete(db_patient), db.commit(): the appointments of the patient are
\* loaded and set to NULL, then DELETE; a DELETE that matches no row is only
\* warned about.
session_delete_patient(d, ptbl, atbl, patient_id, t) ==
    IF patient_id \in Ids(ptbl)
    THEN crud_delete_patient(d, ptbl, atbl, patient_id, t)
    ELSE IF \E i \in 1..Len(atbl) : atbl[i].patient_id = Some(patient_id)
    THEN [raised |-> "IntegrityError", result |-> FALSE,
          patients |-> ptbl, appointments |-> atbl]
    ELSE [raised |-> "", result |-> TRUE,
          patients |-> ptbl, appointments |-> atbl]

\* db.add(db_appointment), db.commit(): ForeignKey("patients.id") is checked
\* by postgresql, after it drew the id; sqlite checks no foreign key unless
\* PRAGMA foreign_keys is set, and nothing sets it.
session_create_appointment(d, ptbl, atbl, seq, appointment, t) ==
    IF d = "postgresql" /\ Val(appointment.patient_id) \notin Ids(ptbl)
    THEN [raised |-> "IntegrityError", result |-> NULL,
          appointments |-> atbl, seq |-> NextSeq(d, seq)]
    ELSE crud_create_appointment(d, atbl, seq, appointment, t)

\* crud.create_patient: add, commit, refresh
create_patient_commit(w) ==
    /\ InHandler(w, "create_patient")
    /\ LET args == sessions[w].args
           r == crud_create_patient(dialect, patients, patients_id_seq,
                                    args.patient, now)
       IN  /\ patients' = r.patients
           /\ patients_id_seq' = r.seq
           /\ Answer(w, IF r.raised # ""
                        THEN Unhandled("create_patient", args, r.raised)
                        ELSE Reply("create_patient", args, HTTP_201_CREATED,
                                   "", <<>>, r.result))
    /\ UNCHANGED <<dialect, appointments, appointments_id_seq, now, nreq, last>>

\* crud.update_patient: setattr, commit, refresh
update_patient_commit(w) ==
    /\ InHandler(w, "update_patient")
    /\ LET args == sessions[w].args
           r == session_update(dialect, patients, Val(sessions[w].loaded),
                               args.patient, now, PatientNotNull,
                               PatientLengths)
       IN  /\ patients' = r.rows
           /\ Answer(w, IF r.raised # ""
                        THEN Unhandled("update_patient", args, r.raised)
                        ELSE Reply("update_patient", args, HTTP_200_OK, "",
                                   <<>>, r.result))
    /\ UNCHANGED <<dialect, appointments, patients_id_seq,
                   appointments_id_seq, now, nreq, last>>

\* crud.delete_patient: delete, commit
delete_patient_commit(w) ==
    /\ InHandler(w, "delete_patient")
    /\ LET args == sessions[w].args
           r == session_delete_patient(dialect, patients, appointments,
                                       args.patient_id, now)
       IN  /\ patients' = r.patients
           /\ appointments' = r.appointments
           /\ Answer(w, IF r.raised # ""
                        THEN Unhandled("delete_patient", args, r.raised)
                        ELSE Reply("delete_patient", args,
                                   HTTP_204_NO_CONTENT, "", <<>>, NULL))
    /\ UNCHANGED <<dialect, patients_id_seq, appointments_id_seq, now, nreq,
                   last>>

\* crud.create_appointment: add, commit, refresh
create_appointment_commit(w) ==
    /\ InHandler(w, "create_appointment")
    /\ LET args == sessions[w].args
           r == session_create_appointment(dialect, patients, appointments,
                    appointments_id_seq, args.appointment, now)
       IN  /\ appointments' = r.appointments
           /\ appointments_id_seq' = r.seq
           /\ Answer(w, IF r.raised # ""
                        THEN Unhandled("create_appointment", args, r.raised)
                        ELSE Reply("create_appointment", args,
                                   HTTP_201_CREATED, "", <<>>,
                                   Some(AppointmentOut(Val(r.result),
                                                       patients))))
    /\ UNCHANGED <<dialect, patients, patients_id_seq, now, nreq, last>>

\* crud.update_appointment: setattr, commit, refresh
update_appointment_commit(w) ==
    /\ InHandler(w, "update_appointment")
    /\ LET args == sessions[w].args
           r == session_update(dialect, appointments, Val(sessions[w].loaded),
                               args.appointment, now, AppointmentNotNull,
                               AppointmentLengths)
       IN  /\ appointments' = r.rows
           /\ Answer(w, IF r.raised # ""
                        THEN Unhandled("update_appointment", args, r.raised)
                        ELSE Reply("update_appointment", args, HTTP_200_OK,
                                   "", <<>>,
                                   Some(AppointmentOut(Val(r.result),
                                                       patients))))
    /\ UNCHANGED <<dialect, patients, patients_id_seq, appointments_id_seq,
                   now, nreq, last>>

\* crud.delete_appointment: status = "cancelled", commit, refresh
delete_appointment_commit(w) ==
    /\ InHandler(w, "delete_appointment")
    /\ LET args == sessions[w].args
           r == session_update(dialect, appointments, Val(sessions[w].loaded),
                               Cancelled, now, AppointmentNotNull,
                               AppointmentLengths)
       IN  /\ appointments' = r.rows
           /\ Answer(w, IF r.raised # ""
                        THEN Unhandled("delete_appointment", args, r.raised)
                        ELSE Reply("delete_appointment", args, HTTP_200_OK,
                                   "", <<>>,
                                   Some([status |-> "success",
                                         message |-> "Appointment cancelled successfully"])))
    /\ UNCHANGED <<dialect, patients, patients_id_seq, appointments_id_seq,
                   now, nreq, last>>

\* The request is over: its locals are gone
Over(session) ==
    [session EXCEPT !.pc = "closed", !.op = "", !.args = <<>>,
                    !.loaded = NULL, !.reply = Started]

\* db.close() as it would be if it ran only when the route function returned
db_close_unless_raised(session) ==
    IF session.reply.status >= HTTP_404_NOT_FOUND
    THEN Over(session)
    ELSE [Over(session) EXCEPT !.db = "closed"]

\* db.close()
db_close(session) == [Over(session) EXCEPT !.db = "closed"]

\* get_db after the yield: finally db.close(); the answer leaves
get_db_finally(w) ==
    /\ sessions[w].pc = "answered"
    /\ sessions' = [sessions EXCEPT ![w] = db_close(@)]
    /\ nreq' = nreq + 1
    /\ UNCHANGED <<dialect, patients, appointments, patients_id_seq,
                   appointments_id_seq, now, last>>

Begin(w) ==
    \/ create_patient_begin(w)
    \/ update_patient_begin(w)
    \/ delete_patient_begin(w)
    \/ create_appointment_begin(w)
    \/ update_appointment_begin(w)
    \/ delete_appointment_begin(w)

Commit(w) ==
    \/ create_patient_commit(w)
    \/ update_patient_commit(w)
    \/ delete_patient_commit(w)
    \/ create_appointment_commit(w)
    \/ update_appointment_commit(w)
    \/ delete_appointment_commit(w)

NextConcurrent ==
    \/ \E w \in Workers : Begin(w)
    \/ \E w \in Workers : Commit(w)
    \/ \E w \in Workers : get_db_finally(w)

ConcurrentSpec == InitConcurrent /\ [][NextConcurrent]_vars

\* A route function that runs, runs to its end: every statement returns or
\* raises, and the finally clause of get_db follows
FairConcurrentSpec ==
    /\ ConcurrentSpec
    /\ \A w \in Workers : WF_vars(Commit(w)) /\ WF_vars(get_db_finally(w))

-----------------------------------------------------------------------------
(* Properties *)

\* The step serves a request of handler op
Served(op) == nreq' = nreq + 1 /\ last'.op = op

RowOf(tbl, id) == Val(First(tbl, id))

\* C1: POST /api/appointments with a valid body whose patient_id names no
\* patient row leaves the appointments table as it was and answers 404 with
\* a detail that names that patient_id; no body with such a patient_id ever
\* inserts a row.
C1_UnknownPatientRejected ==
    [][ (/\ Served("create_appointment")
         /\ Val(last'.args.appointment.patient_id) \notin Ids(patients))
        => /\ appointments' = appointments
           /\ ValidAppointmentCreate(last'.args.appointment)
              => /\ last'.status = HTTP_404_NOT_FOUND
                 /\ last'.detail = "Patient with id {} not found"
                 /\ last'.detail_args =
                        <<Val(last'.args.appointment.patient_id)>> ]_vars

\* A valid appointment for an unknown patient was refused while patients and
\* appointments exist
C1_Witness ==
    /\ last.op = "create_appointment"
    /\ ValidAppointmentCreate(last.args.appointment)
    /\ Val(last.args.appointment.patient_id) \notin Ids(patients)
    /\ last.status = HTTP_404_NOT_FOUND
    /\ patients # <<>>
    /\ appointments # <<>>

\* C2 (as claimed): after DELETE of a patient that owns appointments, none of
\* the appointments it owned can be retrieved by id.
C2_CascadeAsClaimed ==
    [][ (/\ Served("delete_patient")
         /\ last'.args.patient_id \in Ids(patients)
         /\ \E i \in 1..Len(appointments) :
                appointments[i].patient_id = Some(last'.args.patient_id))
        => \A i \in 1..Len(appointments) :
              appointments[i].patient_id = Some(last'.args.patient_id)
              => get_appointment(appointments', appointments[i].id) = NULL ]_vars

\* C3 (as claimed): DELETE of an existing patient, with or without
\* appointments, answers 204 and removes the row, so that get(id) reports
\* NotFound.
C3_DeleteAsClaimed ==
    [][ (/\ Served("delete_patient")
         /\ last'.args.patient_id \in Ids(patients))
        => /\ last'.status = HTTP_204_NO_CONTENT
           /\ get_patient(patients', last'.args.patient_id) = NULL ]_vars

\* C4 (as claimed): after DELETE of an existing appointment, whatever its
\* status was, get(id) reports status "cancelled" and a non-null updated_at,
\* and the table has as many rows as before.
C4_SoftDeleteAsClaimed ==
    [][ (/\ Served("delete_appointment")
         /\ last'.args.appointment_id \in Ids(appointments))
        => /\ last'.status = HTTP_200_OK
           /\ get_appointment(appointments', last'.args.appointment_id) # NULL
           /\ RowOf(appointments', last'.args.appointment_id).status
                  = Some("cancelled")
           /\ RowOf(appointments', last'.args.appointment_id).updated_at # NULL
           /\ Len(appointments') = Len(appointments) ]_vars

\* Every column but updated_at is as before; updated_at is set, and not
\* earlier than before
OnlyStamped(old, new) ==
    /\ \A f \in DOMAIN old \ {"updated_at"} : new[f] = old[f]
    /\ new.updated_at # NULL
    /\ old.updated_at # NULL => Val(new.updated_at) >= Val(old.updated_at)

\* C5 (as claimed): update(id, {}) of an existing patient or appointment
\* leaves every field as it was except updated_at, which becomes non-null
\* and not earlier than its previous value.
C5_EmptyUpdateAsClaimed ==
    [][ /\ (/\ Served("update_patient")
            /\ last'.args.patient_id \in Ids(patients)
            /\ last'.args.patient.fields_set = {})
           => OnlyStamped(RowOf(patients, last'.args.patient_id),
                          RowOf(patients', last'.args.patient_id))
        /\ (/\ Served("update_appointment")
            /\ last'.args.appointment_id \in Ids(appointments)
            /\ last'.args.appointment.fields_set = {})
           => OnlyStamped(RowOf(appointments, last'.args.appointment_id),
                          RowOf(appointments', last'.args.appointment_id))
      ]_vars

\* The fields of the update that are set hold the supplied values (null
\* included), the others hold their prior values, and the record returned
\* is the row as persisted
Patched(old, new, upd, fields, body) ==
    /\ \A f \in fields :
          new[f] = IF f \in upd.fields_set THEN upd.values[f] ELSE old[f]
    /\ new.id = old.id /\ new.created_at = old.created_at
    /\ body # NULL
    /\ \A f \in DOMAIN new : Val(body)[f] = new[f]

\* C6 (as claimed): update(id, UpdateShape) of an existing row sets exactly
\* the fields present in the shape, an explicit null included, keeps the
\* omitted ones, and returns the persisted row.
C6_PatchAsClaimed ==
    [][ /\ (/\ Served("update_patient")
            /\ last'.args.patient_id \in Ids(patients))
           => /\ last'.status = HTTP_200_OK
              /\ Patched(RowOf(patients, last'.args.patient_id),
                         RowOf(patients', last'.args.patient_id),
                         last'.args.patient, PatientFields, last'.body)
        /\ (/\ Served("update_appointment")
            /\ last'.args.appointment_id \in Ids(appointments))
           => /\ last'.status = HTTP_200_OK
              /\ Patched(RowOf(appointments, last'.args.appointment_id),
                         RowOf(appointments', last'.args.appointment_id),
                         last'.args.appointment, AppointmentUpdateFields,
                         last'.body)
      ]_vars

NotFound(detail) ==
    /\ last'.status = HTTP_404_NOT_FOUND
    /\ last'.detail = detail /\ last'.detail_args = <<>>
    /\ patients' = patients /\ appointments' = appointments

\* C7: get, update (with a body of the update shape) and delete of a patient
\* id that is not in the store, and get, update and soft delete of an
\* appointment id that is not in the store, answer 404 with "Patient not
\* found" / "Appointment not found" and change no row of either table.
C7_AbsentIdNotFound ==
    [][ /\ (/\ \/ Served("read_patient") \/ Served("delete_patient")
               \/ /\ Served("update_patient")
                  /\ ValidPatientUpdate(last'.args.patient)
            /\ last'.args.patient_id \notin Ids(patients))
           => NotFound("Patient not found")
        /\ (/\ \/ Served("read_appointment") \/ Served("update_appointment")
               \/ Served("delete_appointment")
            /\ last'.args.appointment_id \notin Ids(appointments))
           => NotFound("Appointment not found")
      ]_vars

\* An update that sets fields was refused for an appointment id not in the
\* store, while other appointments exist
C7_Witness ==
    /\ last.op = "update_appointment"
    /\ last.args.appointment.fields_set # {}
    /\ last.args.appointment_id \notin Ids(appointments)
    /\ last.status = HTTP_404_NOT_FOUND
    /\ appointments # <<>>

\* C8 (as claimed): create with any valid Create-Patient input succeeds, and
\* get of the returned id yields the input fields, a created_at and a null
\* updated_at.
C8_CreateGetAsClaimed ==
    (last.op = "create_patient" /\ ValidPatientCreate(last.args.patient))
    => /\ last.status = HTTP_201_CREATED
       /\ last.body # NULL
       /\ get_patient(patients, Val(last.body).id) # NULL
       /\ LET got == RowOf(patients, Val(last.body).id)
          IN  /\ \A f \in PatientFields : got[f] = last.args.patient[f]
              /\ got.created_at # NULL
              /\ got.updated_at = NULL

\* The rows of tbl by ascending id
RECURSIVE ById(_)
ById(tbl) ==
    IF tbl = <<>> THEN <<>>
    ELSE LET m == CHOOSE i \in 1..Len(tbl) :
                      \A j \in 1..Len(tbl) : tbl[i].id <= tbl[j].id
         IN  <<tbl[m]>> \o ById(Without(tbl, tbl[m].id))

\* C9 (as claimed): list(offset, limit), of patients or of appointments,
\* answers the rows at positions offset .. offset+limit-1 of the table
\* ordered by ascending id.
C9_ListAsClaimed ==
    (/\ last.op \in {"read_patients", "read_appointments"}
     /\ last.args.skip >= 0 /\ last.args.limit >= 0)
    => /\ last.status = HTTP_200_OK
       /\ LET tbl == IF last.op = "read_patients" THEN patients
                     ELSE appointments
              want == SubSeq(ById(tbl), last.args.skip + 1,
                             Min(last.args.skip + last.args.limit, Len(tbl)))
          IN  /\ Len(last.body) = Len(want)
              /\ \A i \in 1..Len(want) : last.body[i].id = want[i].id

\* C10 (as claimed): a list request with a negative skip or a negative limit
\* is answered 422 and never with a list of rows.
C10_NegativePageAsClaimed ==
    (/\ last.op \in {"read_patients", "read_appointments"}
     /\ (last.args.skip < 0 \/ last.args.limit < 0))
    => last.status = HTTP_422_UNPROCESSABLE_ENTITY

\* C11 (as claimed): a create or update request whose payload violates the
\* shape is answered 422 with the per-field errors, and the step inserts or
\* changes no row of either table.
C11_ValidationAsClaimed ==
    [][ (\/ /\ Served("create_patient")
            /\ ~ValidPatientCreate(last'.args.patient)
         \/ /\ Served("update_patient")
            /\ ~ValidPatientUpdate(last'.args.patient)
         \/ /\ Served("create_appointment")
            /\ ~ValidAppointmentCreate(last'.args.appointment))
        => /\ last'.status = HTTP_422_UNPROCESSABLE_ENTITY
           /\ patients' = patients /\ appointments' = appointments ]_vars

\* updated_at is set, and not earlier than it was
Restamped(old, new) ==
    /\ new.updated_at # NULL
    /\ old.updated_at # NULL => Val(new.updated_at) >= Val(old.updated_at)

\* C12 (as claimed): every update or soft delete that succeeds on a row sets
\* its updated_at to a time not earlier than before, also when the values
\* supplied equal the current ones or the appointment is already cancelled;
\* and updated_at of a row changes in no other step, so that it is null
\* exactly on the rows never updated.
C12_UpdatedAtAsClaimed ==
    [][ /\ (Served("update_patient") /\ last'.status = HTTP_200_OK)
           => Restamped(RowOf(patients, last'.args.patient_id),
                        RowOf(patients', last'.args.patient_id))
        /\ (/\ Served("update_appointment") \/ Served("delete_appointment")
            /\ last'.status = HTTP_200_OK)
           => Restamped(RowOf(appointments, last'.args.appointment_id),
                        RowOf(appointments', last'.args.appointment_id))
        /\ \A id \in Ids(patients) \cap Ids(patients') :
              RowOf(patients', id).updated_at # RowOf(patients, id).updated_at
              => /\ Served("update_patient") /\ last'.status = HTTP_200_OK
                 /\ last'.args.patient_id = id
        /\ \A id \in Ids(appointments) \cap Ids(appointments') :
              RowOf(appointments', id).updated_at
                  # RowOf(appointments, id).updated_at
              => /\ Served("update_appointment") \/ Served("delete_appointment")
                 /\ last'.status = HTTP_200_OK
                 /\ last'.args.appointment_id = id
      ]_vars

\* C13 (as claimed): a request that ends in an internal fault, a storage
\* fault of GET /api/patients/ included, is answered 500 with the body
\* {"detail": "Internal Server Error", "error": <message>}.
C13_GenericFaultBodyAsClaimed ==
    last.status = HTTP_500_INTERNAL_SERVER_ERROR
    => last.detail = "Internal Server Error" /\ Len(last.detail_args) = 1

\* C17 (as claimed): on a freshly started system the first request, POST
\* patient, is answered 201 with id 1; a POST appointment for patient 1 whose
\* body gives no status (parsed with the schema's default) is answered 201
\* with status "scheduled"; and once an appointment was soft deleted with the
\* success message, it reads as "cancelled".
C17_ScenarioAsClaimed ==
    /\ (nreq = 1 /\ last.op = "create_patient"
            /\ last.args.patient = TEST_PATIENT)
        => /\ last.status = HTTP_201_CREATED
           /\ Val(last.body).id = 1
    /\ (last.op = "create_appointment"
            /\ last.args.appointment = TEST_APPOINTMENT(1)
            /\ 1 \in Ids(patients))
        => /\ last.status = HTTP_201_CREATED
           /\ Val(last.body).status = Some("scheduled")
    /\ (last.op = "delete_appointment" /\ last.status = HTTP_200_OK)
        => /\ Val(last.body).message = "Appointment cancelled successfully"
           /\ RowOf(appointments, last.args.appointment_id).status
                  = Some("cancelled")

\* The row of tbl with this id is in tbl2 with the same id and created_at
KeepsIdentity(tbl, tbl2, id) ==
    /\ id \in Ids(tbl2)
    /\ Len(SelectSeq(tbl2, LAMBDA r : r.id = id)) = 1
    /\ RowOf(tbl2, id).created_at = RowOf(tbl, id).created_at

\* C18: an update or a soft delete, whatever its payload and its outcome,
\* leaves every existing row of both tables in place with its id and its
\* created_at, and every appointment with its patient_id.
C18_IdentityImmutable ==
    [][ (\/ Served("update_patient") \/ Served("update_appointment")
         \/ Served("delete_appointment"))
        => /\ \A id \in Ids(patients) : KeepsIdentity(patients, patients', id)
           /\ \A id \in Ids(appointments) :
                 /\ KeepsIdentity(appointments, appointments', id)
                 /\ RowOf(appointments', id).patient_id
                        = RowOf(appointments, id).patient_id
           /\ Ids(patients') = Ids(patients)
           /\ Ids(appointments') = Ids(appointments) ]_vars

\* An appointment was updated with a net change, and then soft deleted, at a
\* time later than its creation
C18_Witness ==
    /\ last.op = "delete_appointment"
    /\ last.status = HTTP_200_OK
    /\ LET row == RowOf(appointments, last.args.appointment_id)
       IN  /\ row.updated_at # NULL
           /\ Val(row.updated_at) > Val(row.created_at)
           /\ row.description = Some("Appointment completed successfully")

\* C20 (as claimed): PUT of an existing patient with any body of the update
\* shape, one that sets first_name, last_name or date_of_birth to null
\* included, is answered 200 with the merged record and never 500; and the
\* three columns are non-null in every row.
C20_NullUpdateAsClaimed ==
    /\ (/\ last.op = "update_patient"
         /\ ValidPatientUpdate(last.args.patient)
         /\ last.args.patient_id \in Ids(patients))
        => /\ last.status = HTTP_200_OK
           /\ last.body = get_patient(patients, last.args.patient_id)
    /\ \A i \in 1..Len(patients) :
          \A f \in PatientNotNull : patients[i][f] # NULL

\* C14: every request opens one session and no more; the session is open
\* exactly while the request is in hand; and a session that is open is
\* closed in the end, whether the request ends with success, 404, a
\* validation failure or a storage fault.
C14_SessionReleased ==
    /\ [](\A w \in Workers :
            /\ sessions[w].opened <= 1
            /\ sessions[w].pc = "idle"
                   => sessions[w].opened = 0 /\ sessions[w].db = "none"
            /\ sessions[w].pc \in {"in_handler", "answered"}
                   => sessions[w].opened = 1 /\ sessions[w].db = "open"
            /\ sessions[w].pc = "closed"
                   => sessions[w].opened = 1 /\ sessions[w].db = "closed")
    /\ \A w \in Workers :
          (sessions[w].db = "open") ~> (sessions[w].db = "closed")

\* One request is over with its session closed while another, which ended
\* in a storage fault, still holds its session
C14_Witness ==
    \E w, v \in Workers :
        /\ sessions[w].pc = "closed" /\ sessions[w].db = "closed"
        /\ sessions[v].pc = "answered" /\ sessions[v].db = "open"
        /\ sessions[v].reply.status = HTTP_500_INTERNAL_SERVER_ERROR
        /\ sessions[v].reply.detail_args = <<"IntegrityError">>

\* The step is the flush and commit of the request of w
Commits(w, op) == InHandler(w, op) /\ sessions'[w].pc = "answered"

\* Every row of tbl but the one with this id is in tbl2 as it was
OthersKept(tbl, tbl2, id) ==
    \A k \in Ids(tbl) \ {id} : k \in Ids(tbl2) /\ RowOf(tbl2, k) = RowOf(tbl, k)

\* The answer is the one of a request served alone: 500 if the operation
\* raised, the status and the body of the route otherwise
AnswersAs(w, raised, status, body) ==
    IF raised # ""
    THEN sessions'[w].reply.status = HTTP_500_INTERNAL_SERVER_ERROR
    ELSE sessions'[w].reply.status = status /\ sessions'[w].reply.body = body

\* C15: the commit of a create, an update or a delete changes no row but the
\* one the request targets (or inserts), and when no other request changed
\* that row since the request read it, the row and the answer are those of
\* the same request served alone at that moment.
C15_DistinctIdsIndependent ==
    [][ \A w \in Workers :
        LET args == sessions[w].args
            loaded == sessions[w].loaded
        IN  /\ Commits(w, "create_patient")
               => LET r == crud_create_patient(dialect, patients,
                               patients_id_seq, args.patient, now)
                  IN  /\ OthersKept(patients, patients', 0)
                      /\ appointments' = appointments
                      /\ patients' = r.patients
                      /\ AnswersAs(w, r.raised, HTTP_201_CREATED, r.result)
            /\ Commits(w, "update_patient")
               => LET r == crud_update_patient(dialect, patients,
                               args.patient_id, args.patient, now)
                  IN  /\ OthersKept(patients, patients', args.patient_id)
                      /\ Ids(patients') = Ids(patients)
                      /\ appointments' = appointments
                      /\ loaded = get_patient(patients, args.patient_id)
                         => /\ patients' = r.patients
                            /\ AnswersAs(w, r.raised, HTTP_200_OK, r.result)
            /\ Commits(w, "delete_patient")
               => LET r == crud_delete_patient(dialect, patients, appointments,
                               args.patient_id, now)
                  IN  /\ OthersKept(patients, patients', args.patient_id)
                      /\ appointments' = appointments
                      /\ loaded = get_patient(patients, args.patient_id)
                         => /\ patients' = r.patients
                            /\ AnswersAs(w, r.raised, HTTP_204_NO_CONTENT,
                                         NULL)
            /\ Commits(w, "create_appointment")
               => LET r == crud_create_appointment(dialect, appointments,
                               appointments_id_seq, args.appointment, now)
                  IN  /\ OthersKept(appointments, appointments', 0)
                      /\ patients' = patients
                      /\ loaded = get_patient(patients,
                                      Val(args.appointment.patient_id))
                         => /\ appointments' = r.appointments
                            /\ AnswersAs(w, r.raised, HTTP_201_CREATED,
                                   Some(AppointmentOut(Val(r.result),
                                                       patients)))
            /\ Commits(w, "update_appointment")
               => LET r == crud_update_appointment(dialect, appointments,
                               args.appointment_id, args.appointment, now)
                  IN  /\ OthersKept(appointments, appointments',
                                    args.appointment_id)
                      /\ Ids(appointments') = Ids(appointments)
                      /\ patients' = patients
                      /\ loaded = get_appointment(appointments,
                                                  args.appointment_id)
                         => /\ appointments' = r.appointments
                            /\ AnswersAs(w, r.raised, HTTP_200_OK,
                                   Some(AppointmentOut(Val(r.result),
                                                       patients)))
            /\ Commits(w, "delete_appointment")
               => LET r == crud_delete_appointment(dialect, appointments,
                               args.appointment_id, now)
                  IN  /\ OthersKept(appointments, appointments',
                                    args.appointment_id)
                      /\ Ids(appointments') = Ids(appointments)
                      /\ patients' = patients
                      /\ loaded = get_appointment(appointments,
                                                  args.appointment_id)
                         => /\ appointments' = r.appointments
                            /\ AnswersAs(w, r.raised, HTTP_200_OK,
                                   Some([status |-> "success",
                                         message |-> "Appointment cancelled successfully"]))
      ]_vars

\* An update of patient 2 and a soft delete of appointment 1 were in flight
\* together, both have committed with success and each row shows its change
C15_Witness ==
    \E w, v \in Workers :
        /\ sessions[w].pc = "answered" /\ sessions[w].op = "update_patient"
        /\ sessions[w].args.patient_id = 2
        /\ sessions[w].reply.status = HTTP_200_OK
        /\ sessions[v].pc = "answered"
        /\ sessions[v].op = "delete_appointment"
        /\ sessions[v].reply.status = HTTP_200_OK
        /\ RowOf(patients, 2).first_name = Some("Johnny")
        /\ RowOf(appointments, 1).status = Some("cancelled")
        /\ RowOf(appointments, 1).updated_at # NULL

\* C16 (as claimed): when an update of a patient commits after another
\* update of the same patient, in flight with it, has committed, it is
\* answered 200 and every field that both set holds the value it supplied.
C16_LastWriteWinsAsClaimed ==
    [][ \A w \in Workers : \A v \in Workers \ {w} :
        (/\ Commits(w, "update_patient")
         /\ sessions[v].pc = "answered"
         /\ sessions[v].op = "update_patient"
         /\ sessions[v].reply.status = HTTP_200_OK
         /\ sessions[v].args.patient_id = sessions[w].args.patient_id)
        => /\ sessions'[w].reply.status = HTTP_200_OK
           /\ \A f \in sessions[w].args.patient.fields_set
                         \cap sessions[v].args.patient.fields_set :
                 RowOf(patients', sessions[w].args.patient_id)[f]
                     = sessions[w].args.patient.values[f] ]_vars

\* C19 (as claimed): every appointment row names a patient row that exists.
C19_ReferentialIntegrityAsClaimed ==
    \A i \in 1..Len(appointments) :
        /\ appointments[i].patient_id # NULL
        /\ Val(appointments[i].patient_id) \in Ids(patients)

====
